---- MODULE Spec2Model ----
(***************************************************************************)
(* Model of hqq/core/quantize.py: the Quantizer (group-wise affine         *)
(* quantization, bit-packing dispatch, dequantization) and the HQQLinear   *)
(* layer that hosts it.                                                    *)
(*                                                                         *)
(* Real numbers are exact rationals <<n, d>> (d > 0, lowest terms): the    *)
(* model follows the arithmetic of the code, not the rounding of a float   *)
(* format.  A tensor is a record [shape, data] with data in row-major      *)
(* order.  nbits is written in hundredths (158 is 1.58, 400 is 4).         *)
(***************************************************************************)
EXTENDS Integers, Sequences, FiniteSets, TLC

(***************************************************************************)
(* Bounds of the exploration                                               *)
(***************************************************************************)
MaxStripe == 2

MaxPackCols == 2

NoneVal == "None"

(***************************************************************************)
(* Exact rational arithmetic                                               *)
(***************************************************************************)
Abs(x) == IF x < 0 THEN -x ELSE x

RECURSIVE GCD(_, _)
GCD(a, b) == IF b = 0 THEN a ELSE GCD(b, a % b)

Rat(n, d) ==
    LET g == GCD(Abs(n), Abs(d))
        s == IF d < 0 THEN -1 ELSE 1
    IN  <<(s * n) \div g, (s * d) \div g>>

RInt(n) == <<n, 1>>

RLcm(a, b) == (a[2] \div GCD(a[2], b[2])) * b[2]

RAdd(a, b) ==
    LET l == RLcm(a, b)
    IN  Rat(a[1] * (l \div a[2]) + b[1] * (l \div b[2]), l)

RNeg(a) == <<-a[1], a[2]>>

RSub(a, b) == RAdd(a, RNeg(b))

RMul(a, b) ==
    LET g1 == GCD(Abs(a[1]), b[2])
        g2 == GCD(Abs(b[1]), a[2])
        h1 == IF g1 = 0 THEN 1 ELSE g1
        h2 == IF g2 = 0 THEN 1 ELSE g2
    IN  Rat((a[1] \div h1) * (b[1] \div h2), (a[2] \div h2) * (b[2] \div h1))

RInv(a) == Rat(a[2], a[1])

RDiv(a, b) == RMul(a, RInv(b))

RLess(a, b) ==
    LET l == RLcm(a, b)
    IN  a[1] * (l \div a[2]) < b[1] * (l \div b[2])

RLeq(a, b) == ~RLess(b, a)

RAbs(a) == <<Abs(a[1]), a[2]>>

RMin(a, b) == IF RLess(b, a) THEN b ELSE a

RMax(a, b) == IF RLess(a, b) THEN b ELSE a

RIsInt(a) == a[2] = 1

\* rounding towards minus infinity in place of torch.round
RoundDown(a) == a[1] \div a[2]

\* torch.round / Python round: round half to even
RoundHalfEven(a) ==
    LET f == a[1] \div a[2]
        r2 == 2 * (a[1] - f * a[2])
    IN  IF r2 < a[2] THEN f
        ELSE IF r2 > a[2] THEN f + 1
        ELSE IF f % 2 = 0 THEN f ELSE f + 1

Pow2(n) == 2 ^ n

CeilDiv(a, b) == (a + b - 1) \div b

(***************************************************************************)
(* Tensors: [shape |-> <<rows, cols>>, data |-> row-major sequence]        *)
(***************************************************************************)
Numel(shape) == IF Len(shape) = 0 THEN 1
                ELSE IF Len(shape) = 1 THEN shape[1]
                ELSE shape[1] * shape[2]

Tensor(shape, data, dtype) == [shape |-> shape, data |-> data, dtype |-> dtype]

NoTensor == Tensor(<<>>, <<>>, "none")

Rows(t) == t.shape[1]

Cols(t) == t.shape[2]

At(t, i, j) == t.data[(i - 1) * Cols(t) + j]

\* the function f on 1..n as an explicit sequence
ToSeq(f, n) == SubSeq(f, 1, n)

\* element (i, j) of t after broadcasting t to a larger 2-D shape
BAt(t, i, j) ==
    IF Len(t.shape) = 0 THEN t.data[1]
    ELSE At(t, IF Rows(t) = 1 THEN 1 ELSE i, IF Cols(t) = 1 THEN 1 ELSE j)

(***************************************************************************)
(* BitPack codecs (hqq/core/bitpack.py), stripe layout:                    *)
(*   packed[i] = sum over k of C[k*(L/r) + i] << (b*(r-1-k))               *)
(* applied along the first dimension, column by column.                    *)
(***************************************************************************)
PackingIds == {"8bit_u8", "4bit_u8", "3bit_32", "2bit_u8", "1bit_u8"}

PackBits(p) == CASE p = "8bit_u8" -> 8
                 [] p = "4bit_u8" -> 4
                 [] p = "3bit_32" -> 3
                 [] p = "2bit_u8" -> 2
                 [] p = "1bit_u8" -> 1

PackRatio(p) == CASE p = "8bit_u8" -> 1
                  [] p = "4bit_u8" -> 2
                  [] p = "3bit_32" -> 10
                  [] p = "2bit_u8" -> 4
                  [] p = "1bit_u8" -> 8

\* modulus of the container: uint8 wraps at 2^8; the ten 3-bit fields of an
\* int32 word occupy its low 30 bits
ContainerMod(p) == IF p = "3bit_32" THEN Pow2(30) ELSE Pow2(8)

RECURSIVE StripeSum(_, _, _, _, _, _)
StripeSum(C, p, step, i, j, k) ==
    IF k = PackRatio(p) THEN 0
    ELSE LET row == k * step + i
             c == IF row <= Rows(C) THEN At(C, row, j) ELSE 0
         IN  c * Pow2(PackBits(p) * (PackRatio(p) - 1 - k))
               + StripeSum(C, p, step, i, j, k + 1)

BitPackPack(p, C) ==
    LET step == CeilDiv(Rows(C), PackRatio(p))
        cols == Cols(C)
    IN  Tensor(<<step, cols>>,
               [n \in 1..(step * cols) |->
                   StripeSum(C, p, step, ((n - 1) \div cols) + 1,
                             ((n - 1) % cols) + 1, 0) % ContainerMod(p)],
               IF p = "3bit_32" THEN "int32" ELSE "uint8")

BitPackUnpack(p, P, dtype) ==
    LET step == Rows(P)
        cols == Cols(P)
        r == PackRatio(p)
    IN  Tensor(<<r * step, cols>>,
               [n \in 1..(r * step * cols) |->
                   LET row == (n - 1) \div cols
                       j == ((n - 1) % cols) + 1
                       k == row \div step
                       i == (row % step) + 1
                   IN  (At(P, i, j) \div Pow2(PackBits(p) * (r - 1 - k)))
                          % Pow2(PackBits(p))],
               dtype)

\* Quantizer.pack / Quantizer.unpack: the dispatch tables keyed by packing id
\* Quantizer.pack and Quantizer.unpack: the codec registered under an id
\* a registry that pairs 2bit_u8 with the 4-bit encoder
PackCodecCrossed(p) == IF p = "2bit_u8" THEN "4bit_u8" ELSE p

PackCodec(p) == p

\* a registry that pairs 2bit_u8 with the 4-bit decoder
UnpackCodecCrossed(p) == IF p = "2bit_u8" THEN "4bit_u8" ELSE p

UnpackCodec(p) == p

QuantizerPack(p, C) == BitPackPack(PackCodec(p), C)

QuantizerUnpack(p, P, dtype) == BitPackUnpack(UnpackCodec(p), P, dtype)

(***************************************************************************)
(* Quantizer class attributes                                              *)
(***************************************************************************)
SUPPORTED_BITS == {800, 600, 500, 400, 300, 200, 158, 100}

\* the table with 1.58 bits stored in the 1-bit slot
BitToPackingTernaryOneBit(nbits) == IF nbits = 158 THEN "1bit_u8" ELSE IF nbits \in {800, 600, 500} THEN "8bit_u8" ELSE IF nbits = 400 THEN "4bit_u8" ELSE IF nbits = 300 THEN "3bit_32" ELSE "2bit_u8"

BitToPacking(nbits) == CASE nbits \in {800, 600, 500} -> "8bit_u8"
                         [] nbits = 400 -> "4bit_u8"
                         [] nbits = 300 -> "3bit_32"
                         [] nbits \in {200, 158} -> "2bit_u8"
                         [] nbits = 100 -> "1bit_u8"

UnpackViewDtype(p) == IF p = "3bit_32" THEN "int32" ELSE "uint8"

\* group_size = None
NoGroup == 0

\* 2**nbits; 2**1.58 = 2.98969... is kept to four decimals
TwoPowNbits(nbits) ==
    IF nbits % 100 = 0 THEN RInt(Pow2(nbits \div 100)) ELSE Rat(29897, 10000)

\* max_v = round(2**nbits - 1)
MaxV(nbits) == RoundHalfEven(RSub(TwoPowNbits(nbits), RInt(1)))

\* utils.is_divisible(val1, val2)
IsDivisible(val1, val2) == val1 % val2 = 0

ItemSize(dtype) == CASE dtype = "uint8" -> 1
                     [] dtype \in {"float16", "bfloat16"} -> 2
                     [] dtype \in {"int32", "float32"} -> 4

(***************************************************************************)
(* Quantizer.quantize                                                      *)
(***************************************************************************)
\* the reshape of lines 105-110 taken as [-1, group_size] for either axis
GroupShapeAxisOne(shape, group_size, channel_wise, axis) ==
    IF group_size # NoGroup /\ channel_wise
    THEN <<Numel(shape) \div group_size, group_size>>
    ELSE shape

\* W.reshape([-1, group_size]) if axis == 1 else W.reshape([group_size, -1])
GroupShape(shape, group_size, channel_wise, axis) ==
    IF group_size # NoGroup /\ channel_wise
    THEN IF axis = 1 THEN <<Numel(shape) \div group_size, group_size>>
                     ELSE <<group_size, Numel(shape) \div group_size>>
    ELSE shape

\* shape of W.min(axis, keepdim=True), or of the 0-dim W.min()
StatShape(gshape, channel_wise, axis) ==
    IF ~channel_wise THEN <<>>
    ELSE IF axis = 0 THEN <<1, gshape[2]>> ELSE <<gshape[1], 1>>

\* index in the statistics tensor that element n of the grouped W reads
GroupOf(gshape, channel_wise, axis, n) ==
    IF ~channel_wise THEN 1
    ELSE IF axis = 0 THEN ((n - 1) % gshape[2]) + 1
    ELSE ((n - 1) \div gshape[2]) + 1

GroupElems(gshape, channel_wise, axis, g) ==
    {n \in 1..Numel(gshape) : GroupOf(gshape, channel_wise, axis, n) = g}

MinOf(S) == CHOOSE x \in S : \A y \in S : RLeq(x, y)

MaxOf(S) == CHOOSE x \in S : \A y \in S : RLeq(y, x)

\* scale = max_v / denom, replaced by 1.0 where |denom| <= 1e-4, clamped to 2e4
InitScale(max_v, mn, mx) ==
    LET denom == RSub(mx, mn)
        raw == IF RLeq(RAbs(denom), Rat(1, 10000)) THEN RInt(1)
               ELSE RDiv(RInt(max_v), denom)
    IN  RMin(raw, RInt(20000))

InitZero(mn, scale, round_zero) ==
    LET z == RMul(RNeg(mn), scale)
    IN  IF round_zero THEN RInt(RoundHalfEven(z)) ELSE z

Clamp(x, lo, hi) == IF x < lo THEN lo ELSE IF x > hi THEN hi ELSE x

\* the rounding of line 146 with the clamp left out
QuantCodeNoClamp(w, scale, zero, max_v) ==
    RoundHalfEven(RAdd(RMul(w, scale), zero))

\* (W * scale + zero).round_().clamp_(min_max[0], min_max[1]) for one element
QuantCode(w, scale, zero, max_v) ==
    Clamp(RoundHalfEven(RAdd(RMul(w, scale), zero)), 0, max_v)

\* W_q.view(dtype): the same bytes under another element type
ViewOk(t, dtype) == (Cols(t) * ItemSize(t.dtype)) % ItemSize(dtype) = 0

View(t, dtype) ==
    Tensor(<<Rows(t), (Cols(t) * ItemSize(t.dtype)) \div ItemSize(dtype)>>,
           t.data, dtype)

\* a call that raised: nothing is returned.  codes is the local W_q of
\* Quantizer.quantize before packing (line 137 or 146) and errs the errors of
\* the optimizer's iterations (empty when it did not run), kept for inspection
QuantFail(err) ==
    [status |-> err, W_q |-> NoTensor, meta |-> [packing |-> NoneVal], codes |-> <<>>, errs |-> <<>>]

\* the arguments of Quantizer.quantize
MkArgs(tensor, nbits, channel_wise, group_size, optimize, round_zero, axis, bitpack, compute_dtype, view_as_float) ==
    [tensor |-> tensor, nbits |-> nbits, channel_wise |-> channel_wise,
     group_size |-> group_size, optimize |-> optimize, round_zero |-> round_zero,
     axis |-> axis, bitpack |-> bitpack, compute_dtype |-> compute_dtype,
     view_as_float |-> view_as_float]

\* the body of Quantizer.quantize once its assertions have passed, on the
\* branch optimize = False
QuantizeDirect(a) ==
    LET shape == a.tensor.shape
        gshape == GroupShape(shape, a.group_size, a.channel_wise, a.axis)
        ngroups == Numel(StatShape(gshape, a.channel_wise, a.axis))
        max_v == MaxV(a.nbits)
        mn == ToSeq([g \in 1..ngroups |->
                 MinOf({a.tensor.data[n] :
                          n \in GroupElems(gshape, a.channel_wise, a.axis, g)})], ngroups)
        mx == ToSeq([g \in 1..ngroups |->
                 MaxOf({a.tensor.data[n] :
                          n \in GroupElems(gshape, a.channel_wise, a.axis, g)})], ngroups)
        scale == ToSeq([g \in 1..ngroups |-> InitScale(max_v, mn[g], mx[g])], ngroups)
        zero == ToSeq([g \in 1..ngroups |-> InitZero(mn[g], scale[g], a.round_zero)],
                      ngroups)
        codes == [n \in 1..Numel(gshape) |->
                    QuantCode(a.tensor.data[n],
                              scale[GroupOf(gshape, a.channel_wise, a.axis, n)],
                              zero[GroupOf(gshape, a.channel_wise, a.axis, n)],
                              max_v)]
    IN  [W_q |-> Tensor(gshape, ToSeq(codes, Numel(gshape)), "float32"),
         scale |-> scale, zero |-> zero, errs |-> <<>>]

(***************************************************************************)
(* optimize_weights_proximal (hqq/core/optimize.py): half-quadratic        *)
(* refinement of zero, scale held fixed.  The shrinkage operator is taken  *)
(* at p = 1 (soft-thresholding at 2/beta), where it is rational-valued.    *)
(***************************************************************************)
Beta0 == 10

KappaNum == 105

KappaDen == 100

\* cap on T_max, the number of iterations
MaxIters == 3

RECURSIVE RSum(_, _)
RSum(f, S) ==
    IF S = {} THEN RInt(0)
    ELSE LET n == CHOOSE x \in S : TRUE
         IN  RAdd(f[n], RSum(f, S \ {n}))

ShrinkOp(e, beta) ==
    LET m == RSub(RAbs(e), RDiv(RInt(2), beta))
    IN  IF RLeq(m, RInt(0)) THEN RInt(0)
        ELSE IF e[1] < 0 THEN RNeg(m) ELSE m

\* one iteration (steps a-d and f): codes, residual, shrinkage, new zero, error
OptStep(c, zero, beta) ==
    LET N == Numel(c.gshape)
        idx == 1..N
        grp(n) == IF Len(zero) = 1 THEN 1 ELSE GroupOf(c.gshape, TRUE, c.axis, n)
        W_q == ToSeq([n \in idx |->
                 QuantCode(c.W[n], c.scale[grp(n)], zero[grp(n)], c.max_v)], N)
        e == ToSeq([n \in idx |->
                RSub(RAdd(RMul(c.W[n], c.scale[grp(n)]), zero[grp(n)]), RInt(W_q[n]))], N)
        eb == ToSeq([n \in idx |-> ShrinkOp(e[n], beta)], N)
        upd == ToSeq([n \in idx |->
                  RAdd(RSub(RInt(W_q[n]), RMul(c.W[n], c.scale[grp(n)])), eb[n])], N)
        newzero == [g \in 1..Len(zero) |->
                      LET S == GroupElems(c.gshape, TRUE, c.axis, g)
                      IN  RDiv(RSum(upd, S), RInt(Cardinality(S)))]
        aerr == [n \in idx |-> RAbs(RSub(e[n], eb[n]))]
    IN  [W_q |-> W_q, zero |-> ToSeq(newzero, Len(zero)),
         err |-> RDiv(RSum(aerr, idx), RInt(N))]

\* steps e-f after one iteration from state p: divergence guard (stop when the
\* error grew), best-so-far, growth of beta
\* steps e-f keeping the iterate that diverged in place of the best so far
OptKeepLatest(p, s) ==
    [W_q |-> s.W_q, zero |-> s.zero,
     beta |-> RMul(p.beta, Rat(KappaNum, KappaDen)),
     errs |-> Append(p.errs, s.err),
     stop |-> Len(p.errs) > 0 /\ RLess(p.errs[Len(p.errs)], s.err)]

OptKeepBest(p, s) ==
    IF Len(p.errs) > 0 /\ RLess(p.errs[Len(p.errs)], s.err)
    THEN [p EXCEPT !.errs = Append(p.errs, s.err), !.stop = TRUE]
    ELSE [W_q |-> s.W_q, zero |-> s.zero,
          beta |-> RMul(p.beta, Rat(KappaNum, KappaDen)),
          errs |-> Append(p.errs, s.err), stop |-> FALSE]

OptAdvance(c, p) ==
    IF p.stop THEN p ELSE OptKeepBest(p, OptStep(c, p.zero, p.beta))

\* Quantizer.optimize_weights(tensor=W, scale, zero, min_max, axis)
RECURSIVE OptLoop(_, _, _)
OptLoop(c, p, t) ==
    IF t = 0 THEN p ELSE OptLoop(c, OptAdvance(c, p), t - 1)

OptimizeWeights(gshape, W, scale, zero, max_v, axis) ==
    OptLoop([gshape |-> gshape, W |-> W, scale |-> scale, max_v |-> max_v,
             axis |-> axis],
            [W_q |-> <<>>, zero |-> zero, beta |-> RInt(Beta0),
             errs |-> <<>>, stop |-> FALSE],
            MaxIters)

\* the branch optimize = True of Quantizer.quantize (lines 136-144)
OptimizedResult(d, o) ==
    [W_q |-> Tensor(d.W_q.shape, o.W_q, "float32"),
     scale |-> d.scale, zero |-> o.zero, errs |-> o.errs]

OptimizeFrom(a, d) ==
    OptimizedResult(d, OptimizeWeights(d.W_q.shape, a.tensor.data, d.scale, d.zero,
                                       MaxV(a.nbits), a.axis))

QuantizeOptimized(a) == OptimizeFrom(a, QuantizeDirect(a))

\* meta and the packed tensor built from (W_q, scale, zero): lines 152-179
QuantizeEmit(a, q) ==
    LET gshape == q.W_q.shape
        sshape == StatShape(gshape, a.channel_wise, a.axis)
        packing == BitToPacking(a.nbits)
        meta == [nbits |-> a.nbits,
                 group_size |-> a.group_size,
                 shape |-> a.tensor.shape,
                 scale |-> Tensor(sshape, [g \in 1..Len(q.scale) |-> RInv(q.scale[g])],
                                  "float32"),
                 zero |-> Tensor(sshape, q.zero, "float32"),
                 axis |-> a.axis,
                 packing |-> IF a.bitpack THEN packing ELSE NoneVal,
                 unpack_view_dtype |-> UnpackViewDtype(packing),
                 view_as_float |-> a.view_as_float]
        packed == QuantizerPack(packing, q.W_q)
        vdtype == IF a.compute_dtype = NoneVal THEN "float32" ELSE a.compute_dtype
    IN  IF ~a.bitpack
        THEN [status |-> "ok",
              W_q |-> Tensor(gshape, q.W_q.data, a.tensor.dtype), meta |-> meta,
              codes |-> q.W_q.data, errs |-> q.errs]
        ELSE IF ~a.view_as_float
        THEN [status |-> "ok", W_q |-> packed, meta |-> meta, codes |-> q.W_q.data,
              errs |-> q.errs]
        ELSE IF ViewOk(packed, vdtype)
        THEN [status |-> "ok", W_q |-> View(packed, vdtype), meta |-> meta,
              codes |-> q.W_q.data, errs |-> q.errs]
        ELSE QuantFail("RuntimeError")

\* the assertions of lines 89-99 with the one on axis left out
QuantizeAssertsNoAxis(a) ==
    /\ a.nbits \in SUPPORTED_BITS
    /\ a.group_size # NoGroup => IsDivisible(Numel(a.tensor.shape), a.group_size)

\* the assertions at the head of Quantizer.quantize (lines 89-99)
QuantizeAsserts(a) ==
    /\ a.nbits \in SUPPORTED_BITS
    /\ a.axis \in {0, 1}
    /\ a.group_size # NoGroup => IsDivisible(Numel(a.tensor.shape), a.group_size)

\* the test of line 136 with the assignment of line 115 left out
UseOptimizerAsAsked(a) == a.optimize

\* the test of line 136: optimize, set to False at line 115 when channel_wise
\* is false
UseOptimizer(a) == a.channel_wise /\ a.optimize

QuantizerQuantize(a) ==
    IF ~QuantizeAsserts(a) THEN QuantFail("AssertionError")
    ELSE QuantizeEmit(a, IF UseOptimizer(a)
                         THEN QuantizeOptimized(a) ELSE QuantizeDirect(a))

(***************************************************************************)
(* Quantizer.dequantize                                                    *)
(***************************************************************************)
Max2(x, y) == IF x > y THEN x ELSE y

\* type promotion of a dimensioned tensor of dtype d with tensor t
Promote(d, t) ==
    IF Len(t.shape) = 0 \/ t.dtype = d THEN d ELSE "float32"

Broadcastable(sa, sb) ==
    \/ Len(sb) = 0
    \/ /\ (sa[1] = sb[1] \/ sa[1] = 1 \/ sb[1] = 1)
       /\ (sa[2] = sb[2] \/ sa[2] = 1 \/ sb[2] = 1)

BroadcastShape(sa, sb) ==
    IF Len(sb) = 0 THEN sa ELSE <<Max2(sa[1], sb[1]), Max2(sa[2], sb[2])>>

\* W_r[:k]: the first k rows (all of them when k is None)
TrimRows(t, k) ==
    LET r == IF k = NoGroup \/ k > Rows(t) THEN Rows(t) ELSE k
    IN  Tensor(<<r, Cols(t)>>, SubSeq(t.data, 1, r * Cols(t)), t.dtype)

\* number of rows kept for nbits == 3 (lines 190-194)
TrimCount(meta) ==
    IF meta.axis = 0 THEN meta.group_size
    ELSE (meta.shape[1] * meta.shape[2]) \div meta.group_size

DeqFail(err) == [status |-> err, W_r |-> NoTensor]

\* ((W_r - zero) * scale).reshape(shape)
Affine(W_r, meta) ==
    LET s1 == BroadcastShape(W_r.shape, meta.zero.shape)
        s2 == BroadcastShape(s1, meta.scale.shape)
        dt == Promote(Promote(W_r.dtype, meta.zero), meta.scale)
    IN  IF ~Broadcastable(W_r.shape, meta.zero.shape)
           \/ ~Broadcastable(s1, meta.scale.shape)
           \/ Numel(s2) # Numel(meta.shape)
        THEN DeqFail("RuntimeError")
        ELSE [status |-> "ok",
              W_r |-> Tensor(meta.shape,
                             [n \in 1..Numel(s2) |->
                                LET i == ((n - 1) \div s2[2]) + 1
                                    j == ((n - 1) % s2[2]) + 1
                                IN  RMul(RSub(RInt(BAt(W_r, i, j)), BAt(meta.zero, i, j)),
                                         BAt(meta.scale, i, j))],
                             dt)]

\* the fallback of line 184 taken to be float32
MetaComputeDtypeFloat32(meta) ==
    IF "compute_dtype" \in DOMAIN meta THEN meta.compute_dtype ELSE "float32"

\* meta["compute_dtype"] if ("compute_dtype" in meta) else float16
MetaComputeDtype(meta) ==
    IF "compute_dtype" \in DOMAIN meta THEN meta.compute_dtype ELSE "float16"

QuantizerDequantize(W_q, meta) ==
    LET compute_dtype == MetaComputeDtype(meta)
        viewed == IF meta.view_as_float THEN View(W_q, meta.unpack_view_dtype) ELSE W_q
        unpacked == QuantizerUnpack(meta.packing, viewed, compute_dtype)
    IN  IF meta.packing # NoneVal
        THEN IF meta.nbits = 300
             THEN IF meta.axis # 0 /\ meta.group_size = NoGroup
                  THEN DeqFail("TypeError")
                  ELSE Affine(TrimRows(unpacked, TrimCount(meta)), meta)
             ELSE Affine(unpacked, meta)
        ELSE Affine(Tensor(W_q.shape, W_q.data, compute_dtype), meta)

(***************************************************************************)
(* hqq_base_quant_config and HQQLinear                                     *)
(***************************************************************************)
\* None where a dict of quantization parameters is expected
NoParams == [none |-> TRUE]

NoConfig == [none |-> TRUE]

NoMeta == [none |-> TRUE]

\* dict.update and del on a dict
SetKeys(m, r) == r @@ m

DelKeys(m, ks) == [k \in DOMAIN m \ ks |-> m[k]]

QuantParams(nbits, channel_wise, group_size, optimize) ==
    [nbits |-> nbits, channel_wise |-> channel_wise, group_size |-> group_size,
     optimize |-> optimize]

\* the assertions of hqq_base_quant_config (lines 1084-1090)
BaseConfigAsserts(nbits, group_size) ==
    /\ nbits \in SUPPORTED_BITS
    /\ group_size # NoGroup => IsDivisible(group_size, 8)

\* the dict hqq_base_quant_config returns
HqqBaseQuantConfig(nbits, group_size, quant_zero, quant_scale, offload_meta, view_as_float, axis) ==
    LET qs == IF offload_meta THEN quant_zero ELSE quant_scale
    IN  [weight_quant_params |->
            [nbits |-> nbits, channel_wise |-> TRUE, group_size |-> group_size,
             optimize |-> TRUE, round_zero |-> (nbits = 400), axis |-> axis,
             view_as_float |-> view_as_float],
         scale_quant_params |->
            IF qs THEN QuantParams(800, TRUE, 128, FALSE) ELSE NoParams,
         zero_quant_params |->
            IF ~quant_zero THEN NoParams
            ELSE IF offload_meta THEN QuantParams(800, TRUE, 128, FALSE)
            ELSE QuantParams(800, FALSE, NoGroup, FALSE),
         offload_meta |-> offload_meta]

\* the warnings hqq_base_quant_config prints (lines 1101-1115), as increments
\* of the counts printed so far
Tags == {"quant_meta_deprecated", "offload_deprecated", "zero_scale_deprecated",
         "aten_unavailable", "aten_warning"}

Emit(p, tags) == [t \in Tags |-> IF t \in tags THEN p[t] + 1 ELSE p[t]]

BaseConfigWarnings(quant_zero, quant_scale, offload_meta) ==
    (IF quant_zero \/ quant_scale THEN {"quant_meta_deprecated"} ELSE {})
    \cup (IF offload_meta THEN {"offload_deprecated"} ELSE {})

\* "aten" in backend.value
IsAten(b) == b \in {"forward_aten_backprop", "forward_aten", "forward_aten_int8"}

\* set_backend with the early return of line 506 left out
SetBackendNoReturn(b, print_aten, available) ==
    IF IsAten(b) /\ print_aten
    THEN IF ~available
         THEN [set |-> TRUE, tags |-> {"aten_unavailable", "aten_warning"}, print_aten |-> FALSE]
         ELSE [set |-> TRUE, tags |-> {"aten_warning"}, print_aten |-> FALSE]
    ELSE [set |-> TRUE, tags |-> {}, print_aten |-> print_aten]

\* HQQLinear.set_backend: [returned early, tags printed, PRINT_ATEN_WARNING after]
SetBackendOutcome(b, print_aten, available) ==
    IF IsAten(b) /\ print_aten
    THEN IF ~available
         THEN [set |-> FALSE, tags |-> {"aten_unavailable"}, print_aten |-> print_aten]
         ELSE [set |-> TRUE, tags |-> {"aten_warning"}, print_aten |-> FALSE]
    ELSE [set |-> TRUE, tags |-> {}, print_aten |-> print_aten]

\* torch.stack((a, b))
Stack(a, b, dtype) == Tensor(<<2>> \o a.shape, a.data \o b.data, dtype)

\* the constructor or a method of the layer raised: the fields assigned so far
\* stay as they are
LayerFail(self, err) ==
    [self EXCEPT !.status = err]

\* HQQLinear.cuda from line 551 on, m0 being meta with compute_dtype set:
\* with offload_meta, zero and scale are stacked into zero_scale and deleted
CudaOffload(self, m0) ==
    LET both == m0.quant_scale /\ m0.quant_zero
    IN  IF ~self.offload_meta \/ "zero_scale" \in DOMAIN m0
        THEN [self EXCEPT !.meta = m0, !.in_gpu = TRUE]
        ELSE IF ~both /\ ~({"zero", "scale"} \subseteq DOMAIN m0)
        THEN LayerFail([self EXCEPT !.meta = m0], "KeyError")
        ELSE IF both /\ m0.zero_q.shape # m0.scale_q.shape
        THEN LayerFail([self EXCEPT !.meta = m0], "RuntimeError")
        ELSE IF both
        THEN [self EXCEPT !.in_gpu = TRUE,
                          !.meta = SetKeys(DelKeys(m0, {"scale_q", "zero_q"}),
                                     [zero_scale |-> Stack(m0.zero_q, m0.scale_q, "uint8")])]
        ELSE [self EXCEPT !.in_gpu = TRUE,
                          !.meta = SetKeys(DelKeys(m0, {"scale", "zero"}),
                                     [zero_scale |-> Stack(m0.zero, m0.scale,
                                                           self.compute_dtype)])]

\* HQQLinear.cuda: compute_dtype enters meta, then the offloading
HQQLinearCuda(self) ==
    CudaOffload(self, SetKeys(self.meta, [compute_dtype |-> self.compute_dtype]))

\* Quantizer.quantize(meta["zero"] or meta["scale"], view_as_float=False, **params)
QuantizeMetaTensor(t, params) ==
    QuantizerQuantize(MkArgs(t, params.nbits, params.channel_wise, params.group_size,
                             params.optimize, FALSE, 0, TRUE, NoneVal, FALSE))

\* lines 829-832: W_q and meta are stored, cuda runs, the layer is ready
MarkReady(moved) ==
    IF moved.status # "ok" THEN moved ELSE [moved EXCEPT !.ready = TRUE]

StoreAndMove(self, W_q, meta) ==
    MarkReady(HQQLinearCuda([self EXCEPT !.W_q = W_q, !.meta = meta]))

\* lines 819-827, sq being the quantized meta["scale"]
WithScaleQuantized(self, W_q, meta, sq) ==
    IF sq.status # "ok" THEN LayerFail(self, sq.status)
    ELSE StoreAndMove(self, W_q,
            SetKeys(DelKeys(meta, {"scale"}),
                    [scale_q |-> sq.W_q,
                     meta_scale |-> SetKeys(sq.meta,
                                       [compute_dtype |-> self.compute_dtype])]))

QuantizeScale(self, cfg, W_q, meta) ==
    IF ~meta.quant_scale THEN StoreAndMove(self, W_q, meta)
    ELSE WithScaleQuantized(self, W_q, meta,
                            QuantizeMetaTensor(meta.scale, cfg.scale_quant_params))

\* lines 809-817, zq being the quantized meta["zero"]
WithZeroQuantized(self, cfg, W_q, meta, zq) ==
    IF zq.status # "ok" THEN LayerFail(self, zq.status)
    ELSE QuantizeScale(self, cfg, W_q,
            SetKeys(DelKeys(meta, {"zero"}),
                    [zero_q |-> zq.W_q,
                     meta_zero |-> SetKeys(zq.meta,
                                      [compute_dtype |-> self.compute_dtype])]))

QuantizeZero(self, cfg, W_q, meta) ==
    IF ~meta.quant_zero THEN QuantizeScale(self, cfg, W_q, meta)
    ELSE WithZeroQuantized(self, cfg, W_q, meta,
                           QuantizeMetaTensor(meta.zero, cfg.zero_quant_params))

\* lines 807-832, r being what Quantizer.quantize returned for W
WithWeightQuantized(self, cfg, r) ==
    IF r.status # "ok" THEN LayerFail(self, r.status)
    ELSE QuantizeZero(self, cfg, r.W_q,
            SetKeys(r.meta, [quant_scale |-> cfg.scale_quant_params # NoParams,
                             quant_zero |-> cfg.zero_quant_params # NoParams]))

\* the call of lines 801-806
QuantizeWeight(W, wq, compute_dtype) ==
    QuantizerQuantize(MkArgs(W, wq.nbits, wq.channel_wise, wq.group_size, wq.optimize,
                             wq.round_zero, wq.axis, TRUE, compute_dtype,
                             wq.view_as_float))

\* HQQLinear.quantize(W, **quant_config)
HQQLinearQuantize(self, W, cfg) ==
    WithWeightQuantized(self, cfg,
                        QuantizeWeight(W, cfg.weight_quant_params, self.compute_dtype))

\* initialize with the two assignments of lines 437-438 left out
KeepMetaQuant(cfg) == cfg

\* quant_config['scale_quant_params'] = None; quant_config['zero_quant_params'] = None
DiscardMetaQuant(cfg) ==
    [cfg EXCEPT !.scale_quant_params = NoParams, !.zero_quant_params = NoParams]

\* the condition of line 433
MetaQuantGiven(cfg) ==
    cfg.scale_quant_params # NoParams \/ cfg.zero_quant_params # NoParams

\* group_size None becomes in_features (axis 1) or out_features (axis 0)
DefaultGroupSize(cfg, W) ==
    IF cfg.weight_quant_params.group_size # NoGroup THEN cfg
    ELSE [cfg EXCEPT !.weight_quant_params.group_size =
             IF cfg.weight_quant_params.axis = 1 THEN W.shape[2] ELSE W.shape[1]]

\* HQQLinear.initialize on a layer that has a linear_layer with weight W
InitializeWith(self, W, cfg) ==
    HQQLinearQuantize([self EXCEPT !.quant_config = cfg], W, cfg)

HQQLinearInitialize(self, W) ==
    InitializeWith(self, W,
        DefaultGroupSize(IF MetaQuantGiven(self.quant_config)
                         THEN DiscardMetaQuant(self.quant_config)
                         ELSE self.quant_config, W))

\* self.quant_config = quant_config: the layer keeps the caller's own dict
SameDict(cfg) == [shared |-> TRUE, value |-> cfg]

\* copy.deepcopy(quant_config), line 407: a dict of its own with the value of
\* the argument
Deepcopy(cfg) == [shared |-> FALSE, value |-> cfg]

\* the caller's dict once the constructor has returned self: what the layer
\* did to self.quant_config shows in it when the two are one object
ArgumentAfter(cfg, self) ==
    IF Deepcopy(cfg).shared THEN self.quant_config ELSE cfg

\* HQQLinear.__init__(linear_layer, quant_config, compute_dtype, initialize);
\* W is NoTensor when linear_layer is None.  given keeps the argument
\* quant_config as the caller passed it
HQQLinearNew(W, cfg, compute_dtype, initialize) ==
    LET self == [status |-> "ok", ready |-> FALSE, in_gpu |-> FALSE,
                 compute_dtype |-> compute_dtype,
                 quant_config |-> DelKeys(Deepcopy(cfg).value, {"offload_meta"}),
                 offload_meta |-> cfg.offload_meta,
                 W_q |-> NoTensor, meta |-> NoMeta, given |-> cfg]
    IN  IF initialize /\ W # NoTensor THEN HQQLinearInitialize(self, W) ELSE self

NoLayer ==
    [status |-> "none", ready |-> FALSE, in_gpu |-> FALSE, compute_dtype |-> "float16",
     quant_config |-> NoConfig, offload_meta |-> FALSE,
     W_q |-> NoTensor, meta |-> NoMeta, given |-> NoConfig]

\* is_initialized: neither W_q nor meta is None
IsInitialized(self) == self.W_q # NoTensor /\ self.meta # NoMeta

\* the keys of weight_quant_params that state_dict stores
WeightParamKeys ==
    {"nbits", "channel_wise", "group_size", "optimize", "round_zero", "axis",
     "view_as_float"}

\* the host holds no state dict
NoStateDict == [kind |-> "absent"]

\* {k: None for k in self.state_dict_keys()}
NoneStateDict == [kind |-> "none"]

\* a state dict after load_state_dict has popped W_q and the flags from it
PoppedStateDict == [kind |-> "popped"]

\* HQQLinear.state_dict (encoded_state_dict is True): W_q, the items of meta
\* overwritten by those of weight_quant_params, offload_meta
HQQLinearStateDict(self) ==
    IF ~IsInitialized(self) THEN [status |-> "ok", state |-> NoneStateDict]
    ELSE IF self.quant_config.scale_quant_params # NoParams
            \/ self.quant_config.zero_quant_params # NoParams
    THEN [status |-> "Exception", state |-> NoStateDict]
    ELSE [status |-> "ok",
          state |-> [kind |-> "state", W_q |-> self.W_q,
                     items |-> SetKeys(self.meta, self.quant_config.weight_quant_params),
                     offload_meta |-> self.offload_meta]]

\* HQQLinear.load_state_dict.  A dict loaded before has no W_q left to pop
\* (line 745).  With every value None, W_q is assigned None (line 745) and the
\* method raises before line 783: decoding None fails, and were it to pass,
\* cuda would call .to on the None under meta["zero"]
HQQLinearLoadStateDict(self, sd) ==
    IF sd.kind = "popped" THEN LayerFail(self, "KeyError")
    ELSE IF sd.kind = "none"
    THEN [self EXCEPT !.W_q = NoTensor, !.status = "AttributeError"]
    ELSE MarkReady(HQQLinearCuda(
            [self EXCEPT !.quant_config =
                            [weight_quant_params |->
                                [k \in WeightParamKeys |-> sd.items[k]],
                             scale_quant_params |-> NoParams,
                             zero_quant_params |-> NoParams],
                         !.W_q = sd.W_q,
                         !.offload_meta = sd.offload_meta,
                         !.meta = sd.items]))

\* zero_scale[i - 1] of a stacked pair
Unstack(t, i) ==
    Tensor(Tail(t.shape),
           SubSeq(t.data, (i - 1) * (Len(t.data) \div 2) + 1, i * (Len(t.data) \div 2)),
           t.dtype)

\* HQQLinear.dequantize raised with meta as it stands
DeqLayerFail(self, meta, err) ==
    [layer |-> [self EXCEPT !.meta = meta], status |-> err, W_est |-> NoTensor]

\* HQQLinear.dequantize without the loop of lines 874-875
DeqNoCleanup(self, meta, del_keys, r) ==
    IF r.status # "ok" THEN DeqLayerFail(self, meta, r.status)
    ELSE [layer |-> [self EXCEPT !.meta = meta], status |-> "ok", W_est |-> r.W_r]

\* lines 871-876: the cleanup of del_keys after Quantizer.dequantize returned r
DeqCleanup(self, meta, del_keys, r) ==
    IF r.status # "ok" THEN DeqLayerFail(self, meta, r.status)
    ELSE [layer |-> [self EXCEPT !.meta = DelKeys(meta, del_keys)],
          status |-> "ok", W_est |-> r.W_r]

\* line 871
DeqWeight(self, meta, del_keys) ==
    DeqCleanup(self, meta, del_keys, QuantizerDequantize(self.W_q, meta))

\* lines 865-869, r being the dequantized meta["scale_q"]
DeqWithScale(self, meta, del_keys, r) ==
    IF r.status # "ok" THEN DeqLayerFail(self, meta, r.status)
    ELSE DeqWeight(self, SetKeys(meta, [scale |-> r.W_r]), del_keys \cup {"scale"})

DeqScale(self, meta, del_keys) ==
    IF ~meta.quant_scale THEN DeqWeight(self, meta, del_keys)
    ELSE IF "scale_q" \notin DOMAIN meta THEN DeqLayerFail(self, meta, "KeyError")
    ELSE DeqWithScale(self, meta, del_keys,
                      QuantizerDequantize(meta.scale_q, meta.meta_scale))

\* lines 859-863, r being the dequantized meta["zero_q"]
DeqWithZero(self, meta, del_keys, r) ==
    IF r.status # "ok" THEN DeqLayerFail(self, meta, r.status)
    ELSE DeqScale(self, SetKeys(meta, [zero |-> r.W_r]), del_keys \cup {"zero"})

DeqZero(self, meta, del_keys) ==
    IF ~meta.quant_zero THEN DeqScale(self, meta, del_keys)
    ELSE IF "zero_q" \notin DOMAIN meta THEN DeqLayerFail(self, meta, "KeyError")
    ELSE DeqWithZero(self, meta, del_keys,
                     QuantizerDequantize(meta.zero_q, meta.meta_zero))

\* lines 849-857: zero and scale packed together in zero_scale
DeqUnstack(self, meta) ==
    IF "zero_scale" \notin DOMAIN meta THEN DeqZero(self, meta, {})
    ELSE IF meta.zero_scale.dtype = "uint8"
    THEN DeqZero(self, SetKeys(meta, [zero_q |-> Unstack(meta.zero_scale, 1),
                                      scale_q |-> Unstack(meta.zero_scale, 2)]),
                 {"zero_q", "scale_q"})
    ELSE DeqZero(self, SetKeys(meta, [zero |-> Unstack(meta.zero_scale, 1),
                                      scale |-> Unstack(meta.zero_scale, 2)]),
                 {"zero", "scale"})

\* HQQLinear.dequantize: the layer after the call, the outcome, W_est
HQQLinearDequantize(self) ==
    IF ~self.ready THEN [layer |-> self, status |-> "AssertionError", W_est |-> NoTensor]
    ELSE IF self.W_q = NoTensor
    THEN [layer |-> self, status |-> "AttributeError", W_est |-> NoTensor]
    ELSE DeqUnstack(self, self.meta)

(***************************************************************************)
(* Codec round trip: a code tensor is packed, then unpacked                *)
(***************************************************************************)
VARIABLES cpc, cpacking, ccodes, cpacked, cunpacked,
          qpc, qargs, qres, qin, qout,
          tpc, targs, tres,
          PRINT_ZERO_SCALE_DEPRECATED, PRINT_ATEN_WARNING, hqq_aten_is_available,
          backend, forward, printed, quant_config, layer, calls, saved, ret

cvars == <<cpc, cpacking, ccodes, cpacked, cunpacked>>

qvars == <<qpc, qargs, qres, qin, qout>>

\* a second call of Quantizer.quantize, on the transposed tensor
tvars == <<tpc, targs, tres>>

\* the module globals, HQQLinear.backend and HQQLinear.forward, the warnings
\* printed so far, the host's quant_config, the HQQLinear last constructed,
\* the calls made, the state dict the host holds, what the last method call
\* on the layer returned
hvars == <<PRINT_ZERO_SCALE_DEPRECATED, PRINT_ATEN_WARNING, hqq_aten_is_available,
           backend, forward, printed, quant_config, layer, calls, saved, ret>>

vars == <<cvars, qvars, tvars, hvars>>

NoArgs == [nbits |-> 0]

NoQuant == QuantFail("none")

NoDeq == [status |-> "none", W_r |-> NoTensor]

CodecIdle ==
    /\ cpc = "idle"
    /\ cpacking = NoneVal
    /\ ccodes = NoTensor
    /\ cpacked = NoTensor
    /\ cunpacked = NoTensor

QuantIdle ==
    /\ qpc = "idle"
    /\ qargs = NoArgs
    /\ qres = NoQuant
    /\ qin = NoTensor
    /\ qout = NoDeq

AxisIdle ==
    /\ tpc = "idle"
    /\ targs = NoArgs
    /\ tres = NoQuant

\* no method of a layer has been called; keys is the key set of the layer's
\* meta when the call was made, at the number of the call
NoReturn == [at |-> 0, call |-> "none", status |-> "none", W_est |-> NoTensor, keys |-> {}]

\* the module as it has just been imported, apart from the host's quant_config
ModuleStart ==
    /\ PRINT_ZERO_SCALE_DEPRECATED = TRUE
    /\ PRINT_ATEN_WARNING = TRUE
    /\ backend = "forward_pytorch_backprop"
    /\ forward = "_forward_unimplemented"
    /\ printed = [t \in Tags |-> 0]
    /\ layer = NoLayer
    /\ calls = 0
    /\ saved = NoStateDict
    /\ ret = NoReturn

\* the process as the module has just been imported: no call made yet
LayerStart ==
    /\ ModuleStart
    /\ quant_config = NoConfig

LayerIdle ==
    /\ LayerStart
    /\ hqq_aten_is_available = FALSE

\* code tensors: k-th code is (a*k*k + b*k + c) mod 2^bits
CodeSeeds == {0, 1, 2, 3, 5, 7, 100, 255}

GenCodes(p, rows, cols, a, b, c) ==
    Tensor(<<rows, cols>>,
           [n \in 1..(rows * cols) |-> (a * n * n + b * n + c) % Pow2(PackBits(p))],
           "uint8")

\* sixteen 2-bit codes, four per stripe
StripeCodes ==
    Tensor(<<16, 1>>, <<0, 1, 2, 3, 0, 1, 2, 3, 3, 2, 1, 0, 3, 2, 1, 0>>, "uint8")

CodecInit ==
    /\ cpc = "codes"
    /\ cpacking \in PackingIds
    /\ \/ \E m \in 1..MaxStripe, cols \in 1..MaxPackCols, a \in 0..2, b, c \in CodeSeeds :
             ccodes = GenCodes(cpacking, PackRatio(cpacking) * m, cols, a, b, c)
       \/ cpacking = "2bit_u8" /\ ccodes = StripeCodes
    /\ cpacked = NoTensor
    /\ cunpacked = NoTensor
    /\ QuantIdle
    /\ AxisIdle
    /\ LayerIdle

Pack ==
    /\ cpc = "codes"
    /\ cpacked' = QuantizerPack(cpacking, ccodes)
    /\ cpc' = "packed"
    /\ UNCHANGED <<cpacking, ccodes, cunpacked, qvars, tvars, hvars>>

Unpack ==
    /\ cpc = "packed"
    /\ cunpacked' = QuantizerUnpack(cpacking, cpacked, "uint8")
    /\ cpc' = "unpacked"
    /\ UNCHANGED <<cpacking, ccodes, cpacked, qvars, tvars, hvars>>

CodecNext == Pack \/ Unpack

SpecCodec == CodecInit /\ [][CodecNext]_vars

\* C3: for every registered packing id and every code tensor with values in
\* [0, 2^b - 1] whose length is divisible by the packing ratio,
\* unpack(pack(C)) equals C elementwise.
C3_PackRoundTrip ==
    cpc = "unpacked" => cunpacked = ccodes

C3_Witness ==
    /\ cpc = "unpacked"
    /\ cpacking = "3bit_32"
    /\ Rows(ccodes) = 10
    /\ \E n \in 1..Len(ccodes.data) : ccodes.data[n] = 7
    /\ \E n \in 1..Len(ccodes.data) : ccodes.data[n] = 0

(***************************************************************************)
(* One call of Quantizer.quantize followed by Quantizer.dequantize         *)
(***************************************************************************)
\* largest group_size tried
MaxGroup == 8

\* values the weights are drawn from; element n of a tensor is
\* vals[(stride * (n - 1) + offset) mod Len(vals) + 1]
WVals == <<RInt(0), RInt(1), RInt(3), Rat(-1, 2), Rat(-3, 2), RInt(2)>>

\* values around the thresholds 1e-4 (denominator) and 2e4 (scale)
WTiny == <<RInt(0), Rat(3, 20000), Rat(1, 10000), Rat(1, 8000)>>

GenWeights(vals, shape, stride, offset) ==
    Tensor(shape,
           ToSeq([n \in 1..Numel(shape) |->
                    vals[((stride * (n - 1) + offset) % Len(vals)) + 1]],
                 Numel(shape)),
           "float16")

\* the weight tensors of the exploration, by seed <<table, stride, offset>>:
\* sweeps through the values, two-valued and constant tensors, and tensors at
\* the thresholds
SweepSeeds == {<<1, 1, off>> : off \in {0, 2, 3}}

TinySeeds == {<<2, 1, off>> : off \in {0, 2}}

WeightSeeds ==
    SweepSeeds \cup {<<1, 3, off>> : off \in {0, 1, 2}}
               \cup {<<1, 0, 4>>}
               \cup TinySeeds

SeedWeights(seed, shape) ==
    GenWeights(IF seed[1] = 1 THEN WVals ELSE WTiny, shape, seed[2], seed[3])

QShapes == {<<2, 2>>, <<3, 2>>, <<4, 2>>, <<2, 4>>}

\* the tensor 0, 1, ..., 63 as one column
RampWeights == Tensor(<<64, 1>>, ToSeq([n \in 1..64 |-> RInt(n - 1)], 64), "float16")

\* quantize(RampWeights, nbits=4, group_size=64, axis=0, optimize=False,
\* round_zero=True)
RampArgs == MkArgs(RampWeights, 400, TRUE, 64, FALSE, TRUE, 0, TRUE, NoneVal, FALSE)

\* a configuration the assertions of Quantizer.quantize accept
Accepted(shape, nbits, axis, group_size) ==
    /\ nbits # 700
    /\ axis # 2
    /\ group_size # NoGroup => Numel(shape) % group_size = 0

\* accepted configurations over all weights (bitpack = False on the sweeps,
\* the optimizer away from the thresholds, optimize = True with channel_wise
\* = False on the sweeps), and rejected ones (unsupported
\* nbits, axis outside {0, 1}, group_size not dividing numel) on one tensor
QuantInit ==
    /\ qpc = "call"
    /\ \/ qargs = RampArgs
       \/ \E shape \in QShapes,
             nbits \in SUPPORTED_BITS \cup {700}, axis \in {0, 1, 2},
             group_size \in 0..MaxGroup,
             channel_wise, optimize, round_zero, bitpack \in BOOLEAN,
             seed \in WeightSeeds :
             /\ \/ /\ Accepted(shape, nbits, axis, group_size)
                   /\ (~channel_wise /\ optimize) => (seed \in SweepSeeds /\ bitpack)
                   /\ optimize => seed \notin TinySeeds
                   /\ ~bitpack => seed \in SweepSeeds
                \/ /\ seed = <<1, 1, 0>>
                   /\ channel_wise /\ ~optimize /\ ~round_zero /\ bitpack
             /\ qargs = MkArgs(SeedWeights(seed, shape), nbits, channel_wise,
                               group_size, optimize, round_zero, axis,
                               bitpack, NoneVal, FALSE)
    /\ qres = NoQuant
    /\ qin = NoTensor
    /\ qout = NoDeq
    /\ CodecIdle
    /\ AxisIdle
    /\ LayerIdle

Quantize ==
    /\ qpc = "call"
    /\ qres' = QuantizerQuantize(qargs)
    /\ qin' = qres'.W_q
    /\ qpc' = IF qres'.status = "ok" THEN "quantized" ELSE "failed"
    /\ UNCHANGED <<qargs, qout, cvars, tvars, hvars>>

\* the caller hands dequantize a W_q with one row more (of zeros) or one row
\* fewer than quantize returned
TamperRows(t, d) ==
    LET rowlen == Len(t.data) \div Rows(t)
    IN  Tensor(<<Rows(t) + d, Cols(t)>>,
               IF d < 0 THEN SubSeq(t.data, 1, Len(t.data) - rowlen)
               ELSE t.data \o [k \in 1..rowlen |-> 0],
               t.dtype)

Tamper ==
    /\ qpc = "quantized"
    /\ qres.meta.packing # NoneVal
    /\ \E d \in {-1, 1} :
          /\ Rows(qin) + d >= 1
          /\ qin' = TamperRows(qin, d)
    /\ qpc' = "tampered"
    /\ UNCHANGED <<qargs, qres, qout, cvars, tvars, hvars>>

Dequantize ==
    /\ qpc \in {"quantized", "tampered"}
    /\ qout' = QuantizerDequantize(qin, qres.meta)
    /\ qpc' = "dequantized"
    /\ UNCHANGED <<qargs, qres, qin, cvars, tvars, hvars>>

QuantNext == Quantize \/ Dequantize

SpecQuant == QuantInit /\ [][QuantNext]_vars

(***************************************************************************)
(* quantize(W, axis=0) beside quantize(W.transpose(), axis=1)              *)
(***************************************************************************)
\* W.transpose() of a 2-D tensor, in its logical (row-major) order
Transpose(t) ==
    Tensor(<<Cols(t), Rows(t)>>,
           ToSeq([m \in 1..Numel(t.shape) |->
                    At(t, ((m - 1) % Rows(t)) + 1, ((m - 1) \div Rows(t)) + 1)],
                 Numel(t.shape)),
           t.dtype)

AxisSeeds == SweepSeeds \cup {<<1, 3, off>> : off \in {0, 1, 2}}

AxisInit ==
    /\ qpc = "call"
    /\ tpc = "call"
    /\ \E shape \in QShapes, nbits \in SUPPORTED_BITS,
          group_size \in 0..MaxGroup,
          channel_wise, optimize, round_zero \in BOOLEAN,
          seed \in AxisSeeds :
          /\ Accepted(shape, nbits, 0, group_size)
          /\ ~channel_wise => ~optimize
          /\ qargs = MkArgs(SeedWeights(seed, shape), nbits, channel_wise,
                            group_size, optimize, round_zero, 0,
                            TRUE, NoneVal, FALSE)
          /\ targs = MkArgs(Transpose(SeedWeights(seed, shape)), nbits,
                            channel_wise, group_size, optimize, round_zero, 1,
                            TRUE, NoneVal, FALSE)
    /\ qres = NoQuant
    /\ tres = NoQuant
    /\ qin = NoTensor
    /\ qout = NoDeq
    /\ CodecIdle
    /\ LayerIdle

QuantizeTransposed ==
    /\ tpc = "call"
    /\ tres' = QuantizerQuantize(targs)
    /\ tpc' = IF tres'.status = "ok" THEN "quantized" ELSE "failed"
    /\ UNCHANGED <<targs, cvars, qvars, hvars>>

AxisNext == Quantize \/ QuantizeTransposed

SpecAxis == AxisInit /\ [][AxisNext]_vars

(***************************************************************************)
(* quantize and dequantize over the element types, with a W_q that may     *)
(* have been altered in between                                            *)
(***************************************************************************)
ComputeDtypes == {NoneVal, "float16", "bfloat16", "float32"}

MetaInit ==
    /\ qpc = "call"
    /\ \E shape \in {<<2, 2>>, <<4, 2>>},
          nbits \in SUPPORTED_BITS, axis \in {0, 1},
          group_size \in {NoGroup, 2, 4},
          channel_wise, bitpack, view_as_float \in BOOLEAN,
          compute_dtype \in ComputeDtypes :
          qargs = MkArgs(SeedWeights(<<1, 1, 0>>, shape), nbits, channel_wise,
                         group_size, FALSE, FALSE, axis,
                         bitpack, compute_dtype, view_as_float)
    /\ qres = NoQuant
    /\ qin = NoTensor
    /\ qout = NoDeq
    /\ CodecIdle
    /\ AxisIdle
    /\ LayerIdle

MetaNext == Quantize \/ Tamper \/ Dequantize

SpecMeta == MetaInit /\ [][MetaNext]_vars

(***************************************************************************)
(* A host process: hqq_base_quant_config, HQQLinear(...), set_backend      *)
(***************************************************************************)
\* number of calls the host makes
MaxCalls == 3

LayerWeight == SeedWeights(<<1, 1, 0>>, <<2, 4>>)

LayerInit ==
    /\ LayerStart
    /\ hqq_aten_is_available \in BOOLEAN
    /\ CodecIdle
    /\ QuantIdle
    /\ AxisIdle

BaseQuantConfig ==
    /\ calls < MaxCalls
    /\ calls' = calls + 1
    /\ \E nbits \in {400, 700}, group_size \in {NoGroup, 8, 4},
          quant_zero, quant_scale, offload_meta \in BOOLEAN, axis \in {0, 1} :
          IF BaseConfigAsserts(nbits, group_size)
          THEN /\ quant_config' = HqqBaseQuantConfig(nbits, group_size, quant_zero,
                                      quant_scale, offload_meta, FALSE, axis)
               /\ printed' = Emit(printed, BaseConfigWarnings(quant_zero, quant_scale,
                                                              offload_meta))
          ELSE UNCHANGED <<quant_config, printed>>
    /\ UNCHANGED <<PRINT_ZERO_SCALE_DEPRECATED, PRINT_ATEN_WARNING,
                   hqq_aten_is_available, backend, forward, layer, saved, ret,
                   cvars, qvars, tvars>>

\* HQQLinear(linear_layer, quant_config, initialize=...), one of at most
\* limit calls
ConstructWithin(limit) ==
    /\ calls < limit
    /\ quant_config # NoConfig
    /\ calls' = calls + 1
    /\ \E W \in {NoTensor, LayerWeight}, initialize \in BOOLEAN :
          LET sb == SetBackendOutcome(backend, PRINT_ATEN_WARNING, hqq_aten_is_available)
              warn == /\ initialize /\ W # NoTensor
                      /\ MetaQuantGiven(quant_config)
                      /\ PRINT_ZERO_SCALE_DEPRECATED
          IN  /\ layer' = HQQLinearNew(W, quant_config, "float16", initialize)
              /\ quant_config' =
                    ArgumentAfter(quant_config,
                                  HQQLinearNew(W, quant_config, "float16", initialize))
              /\ backend' = backend
              /\ forward' = IF sb.set THEN backend ELSE forward
              /\ PRINT_ATEN_WARNING' = sb.print_aten
              /\ PRINT_ZERO_SCALE_DEPRECATED' =
                    (PRINT_ZERO_SCALE_DEPRECATED /\ ~warn)
              /\ printed' = Emit(printed, sb.tags \cup
                                 (IF warn THEN {"zero_scale_deprecated"} ELSE {}))
    /\ UNCHANGED <<hqq_aten_is_available, saved, ret, cvars, qvars, tvars>>

Construct == ConstructWithin(MaxCalls)

\* HQQLinear.set_backend(b), called by the host
SetBackend ==
    /\ calls < MaxCalls
    /\ calls' = calls + 1
    /\ \E b \in {"forward_pytorch_backprop", "forward_aten_backprop"} :
          LET sb == SetBackendOutcome(b, PRINT_ATEN_WARNING, hqq_aten_is_available)
          IN  /\ backend' = IF sb.set THEN b ELSE backend
              /\ forward' = IF sb.set THEN b ELSE forward
              /\ PRINT_ATEN_WARNING' = sb.print_aten
              /\ printed' = Emit(printed, sb.tags)
    /\ UNCHANGED <<PRINT_ZERO_SCALE_DEPRECATED, hqq_aten_is_available, quant_config,
                   layer, saved, ret, cvars, qvars, tvars>>

LayerNext == BaseQuantConfig \/ Construct \/ SetBackend

SpecLayer == LayerInit /\ [][LayerNext]_vars

(***************************************************************************)
(* The life of a layer: construction, quantize, state_dict,                *)
(* load_state_dict, dequantize                                             *)
(***************************************************************************)
\* number of calls the host makes on its layers
MaxOps == 4

\* scale_quant_params / zero_quant_params a host may pass: none, one global
\* group, and the 128-wide groups of hqq_base_quant_config
MetaQuantChoices ==
    {NoParams, QuantParams(800, FALSE, NoGroup, FALSE), QuantParams(800, TRUE, 128, FALSE)}

\* the quant_config dicts of the exploration, written by the host: 4-bit
\* weights in groups or with group_size None, no optimizer
LifeConfigs ==
    {[weight_quant_params |->
         [nbits |-> 400, channel_wise |-> TRUE, group_size |-> gs, optimize |-> FALSE,
          round_zero |-> FALSE, axis |-> axis, view_as_float |-> FALSE],
      scale_quant_params |-> sp, zero_quant_params |-> zp, offload_meta |-> om] :
        gs \in {NoGroup, 4, 8}, axis \in {0, 1}, sp \in MetaQuantChoices,
        zp \in MetaQuantChoices \ {QuantParams(800, TRUE, 128, FALSE)}, om \in BOOLEAN}

LifeInit ==
    /\ ModuleStart
    /\ hqq_aten_is_available = FALSE
    /\ quant_config \in LifeConfigs
    /\ CodecIdle
    /\ QuantIdle
    /\ AxisIdle

NewLayer == ConstructWithin(MaxOps)

Returns(call, status, W_est, keys) ==
    [at |-> calls + 1, call |-> call, status |-> status, W_est |-> W_est, keys |-> keys]

\* layer.quantize(W, **layer.quant_config), called by the host
QuantizeLayer ==
    /\ calls < MaxOps
    /\ layer.status = "ok"
    /\ calls' = calls + 1
    /\ LET r == HQQLinearQuantize(layer, LayerWeight, layer.quant_config)
       IN  /\ layer' = [r EXCEPT !.status = "ok"]
           /\ ret' = Returns("quantize", r.status, NoTensor, DOMAIN layer.meta)
    /\ UNCHANGED <<PRINT_ZERO_SCALE_DEPRECATED, PRINT_ATEN_WARNING, hqq_aten_is_available,
                   backend, forward, printed, quant_config, saved, cvars, qvars, tvars>>

\* saved = layer.state_dict()
SaveStateDict ==
    /\ calls < MaxOps
    /\ layer.status = "ok"
    /\ calls' = calls + 1
    /\ LET r == HQQLinearStateDict(layer)
       IN  /\ saved' = IF r.status = "ok" THEN r.state ELSE saved
           /\ ret' = Returns("state_dict", r.status, NoTensor, DOMAIN layer.meta)
    /\ UNCHANGED <<PRINT_ZERO_SCALE_DEPRECATED, PRINT_ATEN_WARNING, hqq_aten_is_available,
                   backend, forward, printed, quant_config, layer, cvars, qvars, tvars>>

\* layer.load_state_dict(saved); the method pops from the host's dict
LoadStateDict ==
    /\ calls < MaxOps
    /\ layer.status = "ok"
    /\ saved # NoStateDict
    /\ calls' = calls + 1
    /\ LET r == HQQLinearLoadStateDict(layer, saved)
       IN  /\ layer' = [r EXCEPT !.status = "ok"]
           /\ ret' = Returns("load_state_dict", r.status, NoTensor, DOMAIN layer.meta)
    /\ saved' = PoppedStateDict
    /\ UNCHANGED <<PRINT_ZERO_SCALE_DEPRECATED, PRINT_ATEN_WARNING, hqq_aten_is_available,
                   backend, forward, printed, quant_config, cvars, qvars, tvars>>

\* layer.dequantize()
DequantizeLayer ==
    /\ calls < MaxOps
    /\ layer.status = "ok"
    /\ calls' = calls + 1
    /\ LET r == HQQLinearDequantize(layer)
       IN  /\ layer' = r.layer
           /\ ret' = Returns("dequantize", r.status, r.W_est, DOMAIN layer.meta)
    /\ UNCHANGED <<PRINT_ZERO_SCALE_DEPRECATED, PRINT_ATEN_WARNING, hqq_aten_is_available,
                   backend, forward, printed, quant_config, saved, cvars, qvars, tvars>>

LifeNext ==
    NewLayer \/ QuantizeLayer \/ SaveStateDict \/ LoadStateDict \/ DequantizeLayer

SpecLife == LifeInit /\ [][LifeNext]_vars

\* W lies on the integer grid induced by the initial (scale, zero): every
\* W * scale + zero is an integer
OnGrid(a) ==
    LET d == QuantizeDirect(a)
        gshape == d.W_q.shape
    IN  \A n \in 1..Numel(gshape) :
           LET g == GroupOf(gshape, a.channel_wise, a.axis, n)
           IN  RIsInt(RAdd(RMul(a.tensor.data[n], d.scale[g]), d.zero[g]))

Returned == qpc \in {"quantized", "tampered", "dequantized"}

\* C1: with optimize = false and bitpack = true, for every supported nbits,
\* axis and group_size dividing numel, and any W on the integer grid induced
\* by the initial (scale, zero), dequantize(quantize(W)) equals W element for
\* element.
C1_RoundTripOnGrid ==
    (/\ qpc = "dequantized"
     /\ ~qargs.optimize /\ qargs.bitpack
     /\ qargs.group_size # NoGroup
     /\ OnGrid(qargs))
    => /\ qout.status = "ok"
       /\ qout.W_r.shape = qargs.tensor.shape
       /\ \A n \in 1..Numel(qargs.tensor.shape) :
             qout.W_r.data[n] = qargs.tensor.data[n]

\* C2 as stated: after quantize, on both paths and for every supported nbits,
\* every element of the integer code tensor lies in [0, 2^nbits - 1].
C2_CodesBelowTwoPowNbits ==
    Returned =>
        \A n \in 1..Len(qres.codes) :
           /\ qres.codes[n] >= 0
           /\ RLeq(RInt(qres.codes[n]), RSub(TwoPowNbits(qargs.nbits), RInt(1)))

\* C2: after quantize, on both paths and for every supported nbits, every
\* element of the integer code tensor lies in [0, round(2^nbits - 1)].
C2_CodesInRange ==
    Returned =>
        /\ Len(qres.codes) = Numel(qargs.tensor.shape)
        /\ \A n \in 1..Len(qres.codes) :
              qres.codes[n] \in 0..MaxV(qargs.nbits)

C2_Witness ==
    /\ qpc = "quantized"
    /\ qargs.nbits = 158
    /\ qargs.round_zero
    /\ \E n \in 1..Len(qres.codes) : qres.codes[n] = 2
    /\ \E n \in 1..Len(qres.codes) : qres.codes[n] = 0

\* C5: for nbits = 3 and every configuration quantize accepts (either axis,
\* channel_wise true or false, any shape and group_size dividing numel),
\* dequantize trims the padded buffer to numel(W) codes and returns a tensor
\* of shape meta.shape.
C5_ThreeBitTrim ==
    (/\ qpc = "dequantized"
     /\ qargs.nbits = 300 /\ qargs.bitpack
     /\ qargs.group_size # NoGroup)
    => /\ qout.status = "ok"
       /\ qout.W_r.shape = qres.meta.shape
       /\ Len(qout.W_r.data) = Numel(qargs.tensor.shape)

\* C6: quantize fails with an error and returns no (W_q, meta) whenever nbits
\* is not supported, axis is not 0 or 1, or a non-null group_size does not
\* divide numel(W).
C6_AssertsReject ==
    (/\ qpc \notin {"idle", "call"}
     /\ \/ qargs.nbits \notin {800, 600, 500, 400, 300, 200, 158, 100}
        \/ qargs.axis \notin {0, 1}
        \/ /\ qargs.group_size # NoGroup
           /\ Numel(qargs.tensor.shape) % qargs.group_size # 0)
    => /\ qpc = "failed"
       /\ qres.status = "AssertionError"
       /\ qres.W_q = NoTensor
       /\ qin = NoTensor

C6_Witness ==
    /\ qpc = "failed"
    /\ qargs.axis = 2
    /\ qargs.nbits = 400
    /\ qargs.group_size = 2

\* C7: dequantize raises a shape-mismatch error, and never returns a tensor,
\* whenever the packed tensor it receives does not have the length expected
\* from meta, for every packing including 3bit_32.
C7_WrongLengthRaises ==
    (/\ qpc = "dequantized"
     /\ qres.meta.packing # NoneVal
     /\ Rows(qin) # Rows(qres.W_q))
    => qout.status # "ok"

\* C10 as stated: the meta returned by quantize contains compute_dtype (with
\* nbits, group_size, shape, scale, zero, axis, packing, unpack_view_dtype and
\* view_as_float).
C10_MetaHasComputeDtype ==
    Returned =>
        {"nbits", "group_size", "shape", "scale", "zero", "axis", "packing",
         "unpack_view_dtype", "view_as_float", "compute_dtype"}
            \subseteq DOMAIN qres.meta

\* C10: the meta returned by quantize holds exactly nbits, group_size, shape,
\* scale, zero, axis, packing, unpack_view_dtype and view_as_float, and no
\* compute_dtype; dequantize on that meta works from float16 whatever
\* compute_dtype quantize was given, so that (optimize = false) its result
\* is float32 with per-channel scale and zero and float16 with the 0-dim
\* scale and zero of channel_wise = false.
C10_MetaWithoutComputeDtype ==
    /\ Returned =>
          DOMAIN qres.meta =
             {"nbits", "group_size", "shape", "scale", "zero", "axis", "packing",
              "unpack_view_dtype", "view_as_float"}
    /\ (qpc = "dequantized" /\ qout.status = "ok" /\ ~qargs.optimize) =>
          qout.W_r.dtype = IF qargs.channel_wise THEN "float32" ELSE "float16"

C10_Witness ==
    /\ qpc = "dequantized"
    /\ qout.status = "ok"
    /\ qargs.compute_dtype = "bfloat16"
    /\ ~qargs.channel_wise
    /\ qout.W_r.dtype = "float16"
    /\ "compute_dtype" \notin DOMAIN qres.meta

\* element n of W (row-major) is element TIndex(n) of W.transpose()
TIndex(n) ==
    LET R == qargs.tensor.shape[1]
        C == qargs.tensor.shape[2]
    IN  ((n - 1) % C) * R + ((n - 1) \div C) + 1

\* group of element n of W in the call on W with axis = 0
Group0(n) ==
    GroupOf(GroupShape(qargs.tensor.shape, qargs.group_size, qargs.channel_wise, 0),
            qargs.channel_wise, 0, n)

\* group of element n of W in the call on W.transpose() with axis = 1
Group1(n) ==
    GroupOf(GroupShape(targs.tensor.shape, targs.group_size, targs.channel_wise, 1),
            targs.channel_wise, 1, TIndex(n))

\* same partition of W's elements, same per-group (scale, zero), same codes
AxisEquivalent ==
    LET N == Numel(qargs.tensor.shape)
    IN  /\ \A n1, n2 \in 1..N : (Group0(n1) = Group0(n2)) <=> (Group1(n1) = Group1(n2))
        /\ \A n \in 1..N :
              /\ qres.codes[n] = tres.codes[TIndex(n)]
              /\ qres.meta.scale.data[Group0(n)] = tres.meta.scale.data[Group1(n)]
              /\ qres.meta.zero.data[Group0(n)] = tres.meta.zero.data[Group1(n)]

BothQuantized == qpc = "quantized" /\ tpc = "quantized"

\* C4 as stated: for every 2-D W and every group_size dividing numel(W),
\* quantize(W, axis=0) and quantize(W.transpose(), axis=1) give the same
\* partition into groups, the same per-group (scale, zero) and the same codes.
C4_AxisSymmetryAnyGroupSize ==
    (BothQuantized /\ qargs.group_size # NoGroup) => AxisEquivalent

\* C4: quantize(W, axis=0) and quantize(W.transpose(), axis=1) give the same
\* partition, per-group (scale, zero) and codes when group_size is W.shape[0]
\* (or null), 1 or numel(W), or channel_wise is false.
C4_AxisSymmetry ==
    (/\ BothQuantized
     /\ \/ ~qargs.channel_wise
        \/ qargs.group_size \in {NoGroup, 1, qargs.tensor.shape[1],
                                  Numel(qargs.tensor.shape)})
    => AxisEquivalent

C4_Witness ==
    /\ BothQuantized
    /\ qargs.channel_wise /\ qargs.optimize
    /\ qargs.tensor.shape = <<4, 2>>
    /\ qargs.group_size = 4
    /\ qargs.nbits = 200
    /\ \E n \in 1..8 : qres.codes[n] = 3
    /\ qres.codes # tres.codes
    /\ AxisEquivalent

Built == layer.status = "ok" /\ layer.ready

C9_DeprecationWarnedOnce ==
    \A t \in {"quant_meta_deprecated", "offload_deprecated", "zero_scale_deprecated"} :
       printed[t] <= 1

\* C12: with channel_wise = false the proximal optimizer is never invoked,
\* whatever the optimize argument: scale and zero are single global values and
\* every code is clamp(round(W * s + zero), 0, max_v), s being the inverse of
\* the stored scale.
C12_NoOptimizerWithoutChannelWise ==
    (Returned /\ ~qargs.channel_wise) =>
        /\ qres.errs = <<>>
        /\ qres.meta.scale.shape = <<>> /\ Len(qres.meta.scale.data) = 1
        /\ qres.meta.zero.shape = <<>> /\ Len(qres.meta.zero.data) = 1
        /\ \A n \in 1..Numel(qargs.tensor.shape) :
              LET x == RoundHalfEven(RAdd(RDiv(qargs.tensor.data[n],
                                               qres.meta.scale.data[1]),
                                          qres.meta.zero.data[1]))
                  hi == RoundHalfEven(RSub(TwoPowNbits(qargs.nbits), RInt(1)))
              IN  qres.codes[n] = (IF x < 0 THEN 0 ELSE IF x > hi THEN hi ELSE x)

C12_Witness ==
    /\ qpc = "quantized"
    /\ ~qargs.channel_wise /\ qargs.optimize
    /\ qargs.nbits = 200 /\ qargs.group_size = 2
    /\ qres.errs = <<>>
    /\ \E n \in 1..Len(qres.codes) : qres.codes[n] = 3
    /\ \E n \in 1..Len(qres.codes) : qres.codes[n] = 1

\* every group of the call's tensor holds one value only
ZeroRange(a) ==
    LET gshape == GroupShape(a.tensor.shape, a.group_size, a.channel_wise, a.axis)
    IN  \A n1, n2 \in 1..Numel(gshape) :
           GroupOf(gshape, a.channel_wise, a.axis, n1)
              = GroupOf(gshape, a.channel_wise, a.axis, n2)
           => a.tensor.data[n1] = a.tensor.data[n2]

\* scale 1, zero = -c and codes 0 in every group of the result
ZeroRangeCodebook ==
    LET gshape == GroupShape(qargs.tensor.shape, qargs.group_size,
                             qargs.channel_wise, qargs.axis)
    IN  /\ \A g \in 1..Len(qres.meta.scale.data) : qres.meta.scale.data[g] = RInt(1)
        /\ \A n \in 1..Numel(gshape) :
              /\ qres.codes[n] = 0
              /\ qres.meta.zero.data[GroupOf(gshape, qargs.channel_wise, qargs.axis, n)]
                    = RNeg(qargs.tensor.data[n])

\* C13: for a tensor whose groups all have zero range (value c), quantize
\* with optimize = false and round_zero = false takes inverse scale 1, zero
\* = -c and all-zero codes, and dequantize reconstructs the tensor exactly.
C13_ZeroRangeExact ==
    (Returned /\ qres.status = "ok" /\ ZeroRange(qargs)
       /\ ~qargs.optimize /\ ~qargs.round_zero)
    => /\ ZeroRangeCodebook
       /\ qpc = "dequantized" =>
             /\ qout.status = "ok"
             /\ qout.W_r.shape = qargs.tensor.shape
             /\ \A n \in 1..Numel(qargs.tensor.shape) :
                   qout.W_r.data[n] = qargs.tensor.data[n]

\* |x - y| <= step / 2
WithinHalfStep(x, y, step) == RLeq(RAbs(RSub(x, y)), RDiv(step, RInt(2)))

C15_StripeExampleAsStated ==
    (cpacking = "2bit_u8" /\ ccodes = StripeCodes) =>
        /\ cpc \in {"packed", "unpacked"} => cpacked.data = <<3, 81, 228, 180>>
        /\ cpc = "unpacked" => cunpacked.data = ccodes.data

\* C15: following the 4-stripe MSB-first layout
\* (packed[i] = sum over k of C[k * (L/4) + i] << (2 * (3 - k))), the 2-bit
\* codec packs [0,1,2,3, 0,1,2,3, 3,2,1,0, 3,2,1,0] into
\* [0x0F, 0x5A, 0xA5, 0xF0], and unpacking that returns the input.
C15_StripeExample ==
    (cpacking = "2bit_u8" /\ ccodes = StripeCodes) =>
        /\ cpc \in {"packed", "unpacked"} =>
              /\ cpacked.shape = <<4, 1>>
              /\ cpacked.data = <<15, 90, 165, 240>>
        /\ cpc = "unpacked" =>
              /\ cunpacked.shape = <<16, 1>>
              /\ cunpacked.data = ccodes.data

C15_Witness ==
    /\ cpc = "unpacked"
    /\ cpacking = "2bit_u8"
    /\ ccodes = StripeCodes
    /\ cpacked.data[3] = 165
    /\ cunpacked.data[9] = 3

\* C16: whenever quantize is called with round_zero = true, the zero-point in
\* the returned meta is integer-valued for every group, on the optimized path
\* as well as on the non-optimized path.
C16_RoundZeroInteger ==
    (Returned /\ qargs.round_zero) =>
        \A g \in 1..Len(qres.meta.zero.data) : qres.meta.zero.data[g][2] = 1

\* the optimizer's first i iterates for the call a, d being the initial
\* codebook, computed one step at a time with no stopping rule
RECURSIVE Iterates(_, _, _)
Iterates(a, d, i) ==
    IF i = 0 THEN <<[W_q |-> <<>>, zero |-> d.zero, beta |-> RInt(Beta0), err |-> RInt(0)]>>
    ELSE LET h == Iterates(a, d, i - 1)
             st == OptStep([gshape |-> d.W_q.shape, W |-> a.tensor.data,
                            scale |-> d.scale, max_v |-> MaxV(a.nbits),
                            axis |-> a.axis], h[i].zero, h[i].beta)
         IN  Append(h, [W_q |-> st.W_q, zero |-> st.zero,
                        beta |-> RMul(h[i].beta, Rat(KappaNum, KappaDen)),
                        err |-> st.err])

\* the last error is larger than the one before it
Diverged(errs) == Len(errs) >= 2 /\ RLess(errs[Len(errs) - 1], errs[Len(errs)])

\* number of iterations before the one that diverged
Kept(errs) == IF Diverged(errs) THEN Len(errs) - 1 ELSE Len(errs)

\* C17: in the proximal optimizer invoked by quantize, the errors err_1,
\* err_2, ... are non-increasing over the iterations executed before the loop
\* stops; the loop stops at the first iteration whose error exceeds the
\* previous one or after T_max iterations, and the best-so-far (W_q, scale,
\* zero), that of the last iteration before the one that diverged, is returned.
C17_ErrorsNonIncreasing ==
    (qpc = "quantized" /\ qargs.channel_wise /\ qargs.optimize) =>
        LET errs == qres.errs
            d == QuantizeDirect(qargs)
            its == Iterates(qargs, d, Len(errs))
        IN  /\ Len(errs) \in 1..MaxIters
            /\ \A i \in 1..Len(errs) : errs[i] = its[i + 1].err
            /\ \A i \in 1..(Kept(errs) - 1) : RLeq(errs[i + 1], errs[i])
            /\ Len(errs) < MaxIters => Diverged(errs)
            /\ qres.codes = its[Kept(errs) + 1].W_q
            /\ qres.meta.zero.data = its[Kept(errs) + 1].zero
            /\ \A g \in 1..Len(d.scale) :
                  qres.meta.scale.data[g] = RDiv(RInt(1), d.scale[g])

C17_Witness ==
    /\ qpc = "quantized"
    /\ qargs.channel_wise /\ qargs.optimize
    /\ Len(qres.errs) = 2
    /\ Diverged(qres.errs)
    /\ qres.errs[1] # RInt(0)

\* C18: if the hqq_aten library is not available, then after any sequence of
\* set_backend calls and constructions HQQLinear.backend is never an ATEN
\* backend: a set_backend call requesting an ATEN backend (it prints that the
\* backend is not available) leaves HQQLinear.backend and the bound forward
\* method unchanged.
C18_NoAtenBackendWhenUnavailable ==
    [][~hqq_aten_is_available =>
         /\ ~IsAten(backend') /\ ~IsAten(forward')
         /\ printed'["aten_unavailable"] # printed["aten_unavailable"] =>
               backend' = backend /\ forward' = forward]_vars

C18_Witness ==
    /\ ~hqq_aten_is_available
    /\ printed["aten_unavailable"] = 1
    /\ layer.status = "ok"
    /\ backend = "forward_pytorch_backprop"
    /\ forward = "forward_pytorch_backprop"

\* C19: when HQQLinear.dequantize has just returned a tensor, the layer's meta
\* has exactly the keys it had when the call was made
C19_DequantizeKeepsMetaKeys ==
    (ret.call = "dequantize" /\ ret.at = calls /\ ret.status = "ok")
        => DOMAIN layer.meta = ret.keys

\* the temporary entries HQQLinear.dequantize makes for the meta of a layer
TemporaryKeys(meta) ==
    (IF "zero_scale" \notin DOMAIN meta THEN {}
     ELSE IF meta.zero_scale.dtype = "uint8" THEN {"zero_q", "scale_q"}
     ELSE {"zero", "scale"})
    \cup (IF meta.quant_zero THEN {"zero"} ELSE {})
    \cup (IF meta.quant_scale THEN {"scale"} ELSE {})

\* a dequantize that unstacked a quantized zero_scale and dequantized both
\* halves has returned a tensor
C19_Witness ==
    /\ ret.call = "dequantize" /\ ret.at = calls /\ ret.status = "ok"
    /\ ret.W_est # NoTensor
    /\ TemporaryKeys(layer.meta) = {"zero_q", "scale_q", "zero", "scale"}

\* C20: a layer that is ready has a W_q and a meta, and dequantize on a layer
\* that is not ready fails its assertion and returns no tensor
C20_ReadyImpliesInitialized ==
    /\ (layer.status = "ok" /\ layer.ready) => IsInitialized(layer)
    /\ (layer.status = "ok" /\ ~layer.ready)
            => /\ HQQLinearDequantize(layer).status = "AssertionError"
               /\ HQQLinearDequantize(layer).W_est = NoTensor

\* a step that is a call of the constructor: a call that is none of the
\* methods quantize, state_dict, load_state_dict, dequantize
ConstructorCall == calls' = calls + 1 /\ ret' = ret

\* C21: a call of the constructor leaves the quant_config dict the caller
\* passed as it was
C21_ConstructorKeepsCallerConfig ==
    [][ConstructorCall => quant_config' = quant_config]_vars

\* a layer was constructed and initialized from a config with offload_meta,
\* quantized scale and zero and group_size None: its own quant_config has
\* lost offload_meta, has both meta-quantizations None and a group_size
C21_Witness ==
    /\ layer.status = "ok" /\ layer.ready /\ layer.given = quant_config
    /\ quant_config.offload_meta
    /\ quant_config.scale_quant_params # NoParams
    /\ quant_config.zero_quant_params # NoParams
    /\ quant_config.weight_quant_params.group_size = NoGroup
    /\ "offload_meta" \notin DOMAIN layer.quant_config
    /\ layer.quant_config.scale_quant_params = NoParams
    /\ layer.quant_config.zero_quant_params = NoParams
    /\ layer.quant_config.weight_quant_params.group_size # NoGroup

\* the pairing of widths and packing ids, and the container of each id
PackingOfWidth ==
    [b \in {800, 600, 500, 400, 300, 200, 158, 100} |->
        IF b \in {800, 600, 500} THEN "8bit_u8"
        ELSE IF b = 400 THEN "4bit_u8"
        ELSE IF b = 300 THEN "3bit_32"
        ELSE IF b \in {200, 158} THEN "2bit_u8"
        ELSE "1bit_u8"]

ContainerOf(p) == IF p = "3bit_32" THEN "int32" ELSE "uint8"

\* C11 as stated: in every meta returned by quantize, packing is a function
\* of nbits alone (8, 6, 5 -> 8bit_u8; 4 -> 4bit_u8; 3 -> 3bit_32;
\* 2, 1.58 -> 2bit_u8; 1 -> 1bit_u8), whatever the other arguments, and
\* unpack_view_dtype is the container type of that packing.
C11_PackingFromNbitsAlone ==
    Returned =>
        /\ qres.meta.packing = PackingOfWidth[qargs.nbits]
        /\ qres.meta.unpack_view_dtype = ContainerOf(qres.meta.packing)

\* C11: in every meta returned by quantize, packing is the id paired with
\* nbits when bitpack is true and null when bitpack is false, whatever the
\* other arguments; unpack_view_dtype is the container type of the id paired
\* with nbits in both cases.
C11_PackingFromNbitsAndBitpack ==
    Returned =>
        /\ qres.meta.packing =
              IF qargs.bitpack THEN PackingOfWidth[qargs.nbits] ELSE NoneVal
        /\ qres.meta.unpack_view_dtype = ContainerOf(PackingOfWidth[qargs.nbits])

C11_Witness ==
    /\ qpc = "quantized"
    /\ ~qargs.bitpack
    /\ qargs.nbits = 300
    /\ qargs.compute_dtype = "bfloat16"
    /\ qres.meta.packing = NoneVal
    /\ qres.meta.unpack_view_dtype = "int32"

====
